---------------------------- MODULE Spec2Model ----------------------------
(***************************************************************************)
(* Model of one streaming session of the /chat/completions endpoint of the *)
(* LightRAG wrappers (custom_llm_wrapper/wrapper.py and                    *)
(* custom_llm_wrapper/wrapper_multimodal.py): stream_generator proxies the *)
(* upstream SSE stream line by line, falls back to a non-streaming query,  *)
(* and finishes with the [DONE] frame.                                     *)
(*                                                                         *)
(* A text is the sequence of its whitespace-separated words (str.split()); *)
(* " ".join of texts is the concatenation of their word sequences.  Every  *)
(* word the upstream produces is a fresh token [id, term]: term says that  *)
(* the word carries one of the characters . ! ?                            *)
(***************************************************************************)
EXTENDS Integers, Sequences, FiniteSets, TLC

VARIABLES
    wrapper,      \* which wrapper serves the request: "plain" | "multimodal"
    modalities,   \* req.modalities after `or ["text"]`
    stream_id,    \* stream_id = str(uuid.uuid4())
    pc,           \* position of stream_generator
    upstream,     \* state of the upstream streaming connection
    buffer,       \* buffer: list of buffered text pieces
    aggregated,   \* aggregated_text_parts
    consumed,     \* the upstream lines read so far (non-blank, stripped)
    out,          \* the frames yielded to the client so far
    nw,           \* number of words the upstream has produced so far
    queries,      \* number of call_lightrag_query calls issued
    synths,       \* number of tts_synthesize_bytes calls made
    spoken,       \* the text chosen for the synthesizer (<<>> before any call)
    answer,       \* full_text of the fallback path (<<>> before it is known)
    fallback,     \* how the fallback's non-streaming query ended
    tts_result,   \* what the last tts_synthesize_bytes call did
    client,       \* the client's side of the response: "connected" | "gone"
    jr,           \* non-streaming request: the upstream's JSON body
    reply,        \* non-streaming request: the HTTP response returned
    audio_bytes,  \* make_audio_base64_chunks: its argument
    b64_units,    \* make_audio_base64_chunks: the strings it yielded
    raw_text,     \* chunk_text_by_words: its argument, character by character
    word_groups,  \* chunk_text_by_words: the groups it yielded
    streams,      \* two concurrent streaming sessions, one record each
    cells,        \* the buffer and aggregated_text_parts lists that exist
    sessions,     \* conversational_ai: ConversationManager.sessions
    requests      \* conversational_ai: the /chat and /reset calls in progress

vars == <<wrapper, modalities, stream_id, pc, upstream, buffer, aggregated,
          consumed, out, nw, queries, synths, spoken, answer, fallback,
          tts_result, client, jr, reply, audio_bytes, b64_units, raw_text,
          word_groups, streams, cells, sessions, requests>>

\* the state of one streaming session of /chat/completions
session == <<wrapper, modalities, stream_id, pc, upstream, buffer,
             aggregated, consumed, out, nw, queries, synths, spoken, answer,
             fallback, tts_result, client, jr, reply>>

\* the state outside that session: helper functions on their own, a pair of
\* concurrent sessions, the conversational_ai service
outside == <<audio_bytes, b64_units, raw_text, word_groups, streams, cells, sessions,
             requests>>

\* the request's settings, fixed for the session
config == <<wrapper, modalities, stream_id>>

\* the state of the non-streaming path
nonstream == <<jr, reply>>

----------------------------------------------------------------------------
\* Bounds of the model
MaxLines == 3
MaxWords == 3
MaxFragWords == 2
MaxSegWords == 13
MaxSeed == 11
MaxAnswerWords == 13
MaxPairLines == 2
MaxChats == 3

\* Program constants
FlushWords == 12
WordsPerChunk == 6
ChunkSize == 1024
FollowupLimit == 2

StreamIds == {"s1"}

Min(a, b) == IF a < b THEN a ELSE b

----------------------------------------------------------------------------
\* Texts

\* k fresh words numbered after n0; the last one carries . ! ? iff t
Fresh(n0, k, t) == [i \in 1..k |-> [id |-> n0 + i, term |-> (t /\ i = k)]]

\* the text "null" (json.dumps(None))
NullText == << [id |-> 0, term |-> FALSE] >>

RECURSIVE JoinSpace(_)
\* " ".join(parts), as words
JoinSpace(parts) ==
    IF parts = <<>> THEN <<>> ELSE Head(parts) \o JoinSpace(Tail(parts))

\* len(text.split())
WordCount(text) == Len(text)

\* any(p in text_piece for p in [".", "!", "?"])
HasTerminal(text) == \E i \in 1..Len(text) : text[i].term

\* mutant: the first group is skipped
ChunkTextByWordsSkipFirst(text, n) ==
    IF text = <<>> THEN <<>>
    ELSE [g \in 1..(((Len(text) + n - 1) \div n) - 1) |->
            SubSeq(text, g * n + 1, Min((g + 1) * n, Len(text)))]

\* mutant: a last group of fewer than n words is dropped
ChunkTextByWordsWholeOnly(text, n) ==
    IF text = <<>> THEN <<>>
    ELSE [g \in 1..(Len(text) \div n) |->
            SubSeq(text, (g - 1) * n + 1, g * n)]

\* chunk_text_by_words(text, words_per_chunk)
ChunkTextByWords(text, n) ==
    IF text = <<>> THEN <<>>
    ELSE [g \in 1..((Len(text) + n - 1) \div n) |->
            SubSeq(text, (g - 1) * n + 1, Min(g * n, Len(text)))]

\* mutant: a trailing unit shorter than size is dropped
MakeAudioChunksWholeOnly(len, size) ==
    [u \in 1..(len \div size) |->
        [lo |-> (u - 1) * size, hi |-> Min(u * size, len)]]

\* make_audio_base64_chunks(audio_bytes, chunk_size): the byte ranges [lo, hi)
MakeAudioChunks(len, size) ==
    [u \in 1..((len + size - 1) \div size) |->
        [lo |-> (u - 1) * size, hi |-> Min(u * size, len)]]

----------------------------------------------------------------------------
\* Frames (OutputEvent)

TextFrame(sid, text) ==
    [kind |-> "text", id |-> sid, text |-> text, err |-> "",
     audio |-> <<>>]

ErrFrame(sid, why) ==
    [kind |-> "text", id |-> sid, text |-> <<>>, err |-> why,
     audio |-> <<>>]

AudioFrame(sid, aud) ==
    [kind |-> "audio", id |-> sid, text |-> <<>>, err |-> "",
     audio |-> aud]

DoneFrame ==
    [kind |-> "done", id |-> "", text |-> <<>>, err |-> "", audio |-> <<>>]

\* one content frame per 6-word group of text
TextChunks(sid, text) ==
    LET groups == ChunkTextByWords(text, WordsPerChunk)
    IN  [g \in 1..Len(groups) |-> TextFrame(sid, groups[g])]

\* mutant: the audio id is the stream id, without its suffix
AudioChunksBareTrack(sid, len) ==
    LET units == MakeAudioChunks(len, ChunkSize)
    IN  [u \in 1..Len(units) |->
            AudioFrame(sid, [id |-> <<sid, "">>,
                             lo |-> units[u].lo, hi |-> units[u].hi])]

\* one audio frame per transfer unit
AudioChunks(sid, len) ==
    LET units == MakeAudioChunks(len, ChunkSize)
    IN  [u \in 1..Len(units) |->
            AudioFrame(sid, [id |-> <<sid, "-audio">>,
                             lo |-> units[u].lo, hi |-> units[u].hi])]

----------------------------------------------------------------------------
\* Request normalisation

WantAudio(m) == "audio" \in m
WantText(m) == "text" \in m

\* modalities = req.modalities or ["text"]
Normalize(req) == IF req = {} THEN {"text"} ELSE req

\* no synthesizer call yet
NoTts == [st |-> "idle", len |-> 0]

\* no upstream body, no response yet
NoJson == <<>>
NoReply == [status |-> 0, body |-> <<>>]

\* the session's variables other than pc
session_data == <<wrapper, modalities, stream_id, upstream, buffer,
                  aggregated, consumed, out, nw, queries, synths, spoken,
                  answer, fallback, tts_result, client, jr, reply>>

\* no session is running: a helper function or another service is looked
\* at on its own, at position p
NoSession(p) ==
    /\ wrapper = "multimodal"
    /\ modalities = {"text"}
    /\ stream_id \in StreamIds
    /\ pc = p
    /\ upstream = "idle"
    /\ buffer = <<>>
    /\ aggregated = <<>>
    /\ consumed = <<>>
    /\ out = <<>>
    /\ nw = 0
    /\ queries = 0
    /\ synths = 0
    /\ spoken = <<>>
    /\ answer = <<>>
    /\ fallback = "none"
    /\ tts_result = NoTts
    /\ client = "connected"
    /\ jr = NoJson
    /\ reply = NoReply

\* nothing outside the session is in use
NoOutside ==
    /\ audio_bytes = <<>>
    /\ b64_units = <<>>
    /\ raw_text = <<>>
    /\ word_groups = <<>>
    /\ streams = <<>>
    /\ cells = <<>>
    /\ sessions = <<>>
    /\ requests = <<>>

Init ==
    /\ wrapper \in {"plain", "multimodal"}
    /\ modalities \in
          IF wrapper = "plain" THEN {{"text"}}
          ELSE {Normalize(r) : r \in SUBSET {"text", "audio"}}
    /\ stream_id \in StreamIds
    /\ pc = "ATTEMPT_PROXY"
    /\ upstream = "idle"
    /\ buffer = <<>>
    /\ aggregated = <<>>
    /\ consumed = <<>>
    /\ out = <<>>
    /\ nw = 0
    /\ queries = 0
    /\ synths = 0
    /\ spoken = <<>>
    /\ answer = <<>>
    /\ fallback = "none"
    /\ tts_result = NoTts
    /\ client = "connected"
    /\ jr = NoJson
    /\ reply = NoReply
    /\ NoOutside


----------------------------------------------------------------------------
\* Upstream lines, by the shape the classifier finds

UpstreamAudio == [id |-> <<"upstream", "-a1">>, lo |-> 0, hi |-> 1]

\* the id the upstream put on its chunks
UpstreamId == "upstream-1"

\* dc, top: the delta's content sub-object and the parsed object, where the
\* line is looked at key by key; uid: the line's own `id` field
Line(shape, text) ==
    [shape |-> shape, text |-> text, audio |-> <<>>, dc |-> <<>>,
     top |-> <<>>, uid |-> UpstreamId]

\* the lines the upstream can send next, n0 words having been sent before:
\*   audio  chunk whose delta carries an audio sub-object
\*   str    chunk whose delta.content is a string (possibly empty)
\*   obj    chunk whose delta.content is an object with a known textual key
\*   plain  object with a top-level response / answer / result string
\*   other  any other object (text: its serialization)
\*   raw    a line that is no JSON object
\*   bad    chunk whose choices[0] or delta is no object (text: serialization)
\* each with a text of at most room words, and a raw line of more words than
\* one chunk holds
Lines(n0, room) ==
    {[Line("audio", <<>>) EXCEPT !.audio = UpstreamAudio]}
    \cup {Line("str", Fresh(n0, k, t)) : k \in 0..room, t \in BOOLEAN}
    \cup {Line(s, Fresh(n0, k, FALSE)) :
             s \in {"obj", "plain", "other", "raw", "bad"}, k \in 1..room}
    \cup {Line("raw", Fresh(n0, WordsPerChunk + 1, FALSE))}

\* the result of handling one line
Handled(buf, agg, emit, raised) ==
    [buf |-> buf, agg |-> agg, emit |-> emit, raised |-> raised]

\* mutant: the word count must exceed the threshold
ShouldFlushAbove(buf, text_piece) ==
    HasTerminal(text_piece) \/ WordCount(JoinSpace(buf)) > FlushWords

\* mutant: terminal punctuation is not looked at
ShouldFlushCountOnly(buf, text_piece) ==
    WordCount(JoinSpace(buf)) >= FlushWords

\* wrapper_multimodal.py: the flush condition, buf holding the new piece
ShouldFlush(buf, text_piece) ==
    HasTerminal(text_piece) \/ WordCount(JoinSpace(buf)) >= FlushWords

\* wrapper_multimodal.py: a flushed segment is emitted as text
EmitsSegment(m) == WantText(m) /\ ~WantAudio(m)

\* wrapper_multimodal.py: string delta (the re-segmenter's append)
AppendFragment(text_piece, buf, agg, m, sid) ==
    LET buf1 == Append(buf, text_piece)
        agg1 == Append(agg, text_piece)
    IN  IF ShouldFlush(buf1, text_piece)
        THEN Handled(<<>>, agg1,
                     IF EmitsSegment(m)
                     THEN << TextFrame(sid, JoinSpace(buf1)) >> ELSE <<>>,
                     FALSE)
        ELSE Handled(buf1, agg1, <<>>, FALSE)

\* wrapper_multimodal.py: text of another shape, chunked at once
ChunkNow(text, buf, agg, m, sid) ==
    Handled(buf, Append(agg, text),
            IF WantText(m) THEN TextChunks(sid, text) ELSE <<>>, FALSE)

\* mutant: the chunk is forwarded with the id the upstream gave it
ForwardAudioKeepId(line, sid) == AudioFrame(line.uid, line.audio)

\* parsed["id"] = stream_id; yield sse_event(parsed)
ForwardAudio(line, sid) == AudioFrame(sid, line.audio)

\* wrapper_multimodal.py: the body of `async for raw_line`
HandleLineMM(line, buf, agg, m, sid) ==
    CASE line.shape = "audio" ->
            Handled(buf, agg, << ForwardAudio(line, sid) >>, FALSE)
      [] line.shape = "bad" -> Handled(buf, agg, <<>>, TRUE)
      [] line.shape = "str" -> AppendFragment(line.text, buf, agg, m, sid)
      [] OTHER -> ChunkNow(line.text, buf, agg, m, sid)

\* wrapper.py: the body of `async for raw_line`
HandleLinePlain(line, buf, agg, m, sid) ==
    CASE line.shape = "str" ->
            Handled(buf, agg, << TextFrame(sid, line.text) >>, FALSE)
      [] line.shape = "audio" ->
            Handled(buf, agg, TextChunks(sid, NullText), FALSE)
      [] OTHER -> Handled(buf, agg, TextChunks(sid, line.text), FALSE)

HandleLine(w, line, buf, agg, m, sid) ==
    IF w = "plain" THEN HandleLinePlain(line, buf, agg, m, sid)
    ELSE HandleLineMM(line, buf, agg, m, sid)

----------------------------------------------------------------------------
\* Textual keys of an upstream object. A value is absent (.get gives None),
\* empty (a falsy value such as "") or a text; the text under the i-th of
\* response, answer, result, content is the word numbered n0 + i, the
\* serialization of the content sub-object is word n0 + 5 and that of the
\* whole parsed line word n0 + 6; the texts under text, message, data are
\* the words n0 + 7, n0 + 8, n0 + 9.

TextKeys == {"response", "answer", "result", "content"}

KeyValues == {"absent", "empty", "text"}

KeyPos(k) ==
    CASE k = "response" -> 1
      [] k = "answer" -> 2
      [] k = "result" -> 3
      [] k = "content" -> 4
      [] k = "text" -> 7
      [] k = "message" -> 8
      [] k = "data" -> 9

\* obj.get(k), a falsy value being <<>>
Get(obj, k, n0) ==
    IF obj[k] = "text" THEN Fresh(n0 + KeyPos(k) - 1, 1, FALSE) ELSE <<>>

\* json.dumps(dc), json.dumps(parsed)
DumpsContent(n0) == Fresh(n0 + Cardinality(TextKeys), 1, FALSE)
DumpsParsed(n0) == Fresh(n0 + Cardinality(TextKeys) + 1, 1, FALSE)

\* Python's `a or b`
Or(a, b) == IF a # <<>> THEN a ELSE b

\* mutant: the keys are tried in the order result, answer, response, content
ExtractDeltaTextResultFirst(dc, n0) ==
    Or(Get(dc, "result", n0),
       Or(Get(dc, "answer", n0),
          Or(Get(dc, "response", n0), Get(dc, "content", n0))))

\* dc.get("response") or dc.get("answer") or dc.get("result")
\*     or dc.get("content")
ExtractDeltaText(dc, n0) ==
    Or(Get(dc, "response", n0),
       Or(Get(dc, "answer", n0),
          Or(Get(dc, "result", n0), Get(dc, "content", n0))))

\* the content sub-objects of a delta chunk
DeltaObjects == [TextKeys -> KeyValues]

\* a delta chunk whose content is the object dc, as the classifier of
\* wrapper w finds it: the extracted text if there is one; otherwise
\* wrapper.py serializes dc, and wrapper_multimodal.py, the chunk having
\* no top-level textual key, serializes the parsed line
DeltaLine(w, dc, n0) ==
    LET text == ExtractDeltaText(dc, n0)
    IN  IF text # <<>>
        THEN [Line("obj", text) EXCEPT !.dc = <<dc>>]
        ELSE [Line("other", IF w = "plain" THEN DumpsContent(n0)
                            ELSE DumpsParsed(n0)) EXCEPT !.dc = <<dc>>]

\* the values a top-level key can have: as KeyValues, or a value that is
\* truthy and no string (a nested object, a number)
TopKeys == {"response", "answer", "result", "text", "content", "message",
            "data"}
TopValues == KeyValues \cup {"object"}
TopObjects == [TopKeys -> TopValues]

Truthy(v) == v \in {"text", "object"}

\* text = parsed.get("response") or parsed.get("answer")
\*     or parsed.get("result"); if text and isinstance(text, str)
TopLevelText(parsed, n0) ==
    LET k == IF Truthy(parsed["response"]) THEN "response"
             ELSE IF Truthy(parsed["answer"]) THEN "answer"
             ELSE "result"
    IN  Get(parsed, k, n0)

\* wrapper.py: for key in ("text", "content", "message", "data")
FlatText(parsed, n0) ==
    Or(Get(parsed, "text", n0),
       Or(Get(parsed, "content", n0),
          Or(Get(parsed, "message", n0), Get(parsed, "data", n0))))

\* a parsed object that is no delta chunk, as the classifier of wrapper w
\* finds it: the top-level text; otherwise, in wrapper.py only, the text
\* under one of the secondary keys; otherwise the serialized object
ObjectLine(w, parsed, n0) ==
    LET text == TopLevelText(parsed, n0)
        flat_text == IF w = "plain" THEN FlatText(parsed, n0) ELSE <<>>
    IN  IF text # <<>>
        THEN [Line("plain", text) EXCEPT !.top = <<parsed>>]
        ELSE IF flat_text # <<>>
        THEN [Line("plain", flat_text) EXCEPT !.top = <<parsed>>]
        ELSE [Line("other", DumpsParsed(n0)) EXCEPT !.top = <<parsed>>]

----------------------------------------------------------------------------
\* Actions of stream_generator

\* the record kept of a synthesizer call
TtsResult(tts) ==
    [st |-> IF tts.ok THEN "ok" ELSE "raised", len |-> tts.len]

\* mutant: no return after the proxy path's [DONE]
ProxyDoneFallsThrough == "FALLBACK_QUERY"

\* wrapper_multimodal.py: `return` after the proxy path's [DONE]
ProxyDonePc == "DONE"

\* mutant: the error chunk ends the response, no [DONE] follows
FallbackErrorNoDone(sid, why) == << ErrFrame(sid, why) >>

\* the frames of a failed fallback query: the error chunk, then [DONE]
FallbackError(sid, why) == << ErrFrame(sid, why), DoneFrame >>

\* client.stream(...) answers 200
ConnectOK ==
    /\ pc = "ATTEMPT_PROXY"
    /\ pc' = "PROXY_STREAMING"
    /\ upstream' = "open"
    /\ UNCHANGED outside
    /\ UNCHANGED <<fallback, tts_result, client, nonstream, config, buffer,
                   aggregated, consumed, out, nw, queries, synths, spoken,
                   answer>>

\* client.stream(...) raises, or answers with another status
ConnectFail ==
    /\ pc = "ATTEMPT_PROXY"
    /\ \E how \in {"refused", "status"} : upstream' = how
    /\ pc' = "FALLBACK_QUERY"
    /\ UNCHANGED outside
    /\ UNCHANGED <<fallback, tts_result, client, nonstream, config, buffer,
                   aggregated, consumed, out, nw, queries, synths, spoken,
                   answer>>

\* one upstream line is read and handled; an exception leaves the loop
ProxyStep(line) ==
    LET h == HandleLine(wrapper, line, buffer, aggregated, modalities,
                        stream_id)
    IN  /\ consumed' = Append(consumed, line)
        /\ nw' = nw + Len(line.text)
        /\ buffer' = h.buf
        /\ aggregated' = h.agg
        /\ out' = out \o h.emit
        /\ pc' = IF h.raised THEN "FALLBACK_QUERY" ELSE pc
        /\ upstream' = IF h.raised THEN "abandoned" ELSE upstream
        /\ UNCHANGED outside
        /\ UNCHANGED <<fallback, tts_result, client, nonstream, config,
                       queries, synths, spoken, answer>>

ProxyLine ==
    /\ pc = "PROXY_STREAMING"
    /\ Len(consumed) < MaxLines
    /\ \E line \in Lines(nw, IF nw < MaxWords THEN MaxWords - nw ELSE 0) :
          ProxyStep(line)

\* aiter_lines() raises: transport failure in the middle of the stream
ProxyTransportFail ==
    /\ pc = "PROXY_STREAMING"
    /\ pc' = "FALLBACK_QUERY"
    /\ upstream' = "broken"
    /\ UNCHANGED outside
    /\ UNCHANGED <<fallback, tts_result, client, nonstream, config, buffer,
                   aggregated, consumed, out, nw, queries, synths, spoken,
                   answer>>

\* the upstream closes the stream
ProxyEnd ==
    /\ pc = "PROXY_STREAMING"
    /\ upstream' = "closed"
    /\ IF wrapper = "multimodal" /\ WantAudio(modalities)
       THEN pc' = "PROXY_SYNTH" /\ out' = out
       ELSE pc' = ProxyDonePc /\ out' = Append(out, DoneFrame)
    /\ UNCHANGED outside
    /\ UNCHANGED <<fallback, tts_result, client, nonstream, config, buffer,
                   aggregated, consumed, nw, queries, synths, spoken, answer>>

\* the byte counts a synthesizer call can return
AudioLens == {0, 1, ChunkSize + 1}

\* what tts_synthesize_bytes can do: raise, or return len bytes
TtsOutcomes ==
    {[ok |-> FALSE, len |-> 0]} \cup {[ok |-> TRUE, len |-> n] : n \in AudioLens}

\* the answers the non-streaming endpoint can give, n0 words sent before
Answers(n0) ==
    {Fresh(n0, k, FALSE) : k \in {1, WordsPerChunk, WordsPerChunk + 1}}

\* mutant: the re-query's answer is not used
FinalTextIgnoresRequery(r2text, agg) == JoinSpace(agg)

\* final_text: the re-query's answer, or " ".join(aggregated_text_parts)
FinalText(r2text, agg) == IF r2text # <<>> THEN r2text ELSE JoinSpace(agg)

\* wrapper_multimodal.py: synthesis after the stream finished
ProxySynth ==
    /\ pc = "PROXY_SYNTH"
    /\ queries' = queries + 1
    /\ \E requery \in {"error", "status", "empty", "ok"} :
       \E tts \in TtsOutcomes :
          LET r2text == IF requery = "ok" THEN Fresh(nw, 1, FALSE) ELSE <<>>
              final_text == FinalText(r2text, aggregated)
          IN  /\ nw' = nw + Len(r2text)
              /\ IF final_text = <<>>
                 THEN /\ pc' = ProxyDonePc
                      /\ out' = Append(out, DoneFrame)
                      /\ UNCHANGED <<synths, spoken, tts_result>>
                 ELSE /\ synths' = synths + 1
                      /\ spoken' = final_text
                      /\ tts_result' = TtsResult(tts)
                      /\ IF ~tts.ok
                         THEN pc' = "FALLBACK_QUERY" /\ out' = out
                         ELSE /\ pc' = ProxyDonePc
                              /\ out' = (out \o AudioChunks(stream_id, tts.len))
                                            \o << DoneFrame >>
    /\ UNCHANGED outside
    /\ UNCHANGED <<fallback, client, nonstream, config, upstream, buffer,
                   aggregated, consumed, answer>>

\* the fallback's non-streaming query
FallbackQuery ==
    /\ pc = "FALLBACK_QUERY"
    /\ queries' = queries + 1
    /\ \/ \E why \in {"transport", "status"} :
            /\ fallback' = why
            /\ out' = out \o FallbackError(stream_id, why)
            /\ pc' = "DONE"
            /\ UNCHANGED <<answer, nw>>
       \/ \* r.json() raises: the body is no JSON
          /\ fallback' = "unparsable"
          /\ pc' = "CRASHED"
          /\ UNCHANGED <<out, answer, nw>>
       \/ \E full_text \in Answers(nw) :
            /\ fallback' = "ok"
            /\ answer' = full_text
            /\ nw' = nw + Len(full_text)
            /\ pc' = "FALLBACK_CHUNKING"
            /\ out' = out
    /\ UNCHANGED outside
    /\ UNCHANGED <<tts_result, client, nonstream, config, upstream, buffer,
                   aggregated, consumed, synths, spoken>>

\* the fallback answer is streamed as text chunks
FallbackChunking ==
    /\ pc = "FALLBACK_CHUNKING"
    /\ LET chunks == IF WantText(modalities)
                     THEN TextChunks(stream_id, answer) ELSE <<>>
       IN  IF wrapper = "multimodal" /\ WantAudio(modalities)
           THEN pc' = "FALLBACK_SYNTH" /\ out' = out \o chunks
           ELSE pc' = "DONE" /\ out' = (out \o chunks) \o << DoneFrame >>
    /\ UNCHANGED outside
    /\ UNCHANGED <<fallback, tts_result, client, nonstream, config, upstream,
                   buffer, aggregated, consumed, nw, queries, synths, spoken,
                   answer>>

\* wrapper_multimodal.py: synthesis of the fallback answer
FallbackSynth ==
    /\ pc = "FALLBACK_SYNTH"
    /\ synths' = synths + 1
    /\ spoken' = answer
    /\ \E tts \in TtsOutcomes :
          /\ tts_result' = TtsResult(tts)
          /\ IF ~tts.ok
             THEN pc' = "CRASHED" /\ out' = out
             ELSE /\ pc' = "DONE"
                  /\ out' = (out \o AudioChunks(stream_id, tts.len))
                                \o << DoneFrame >>
    /\ UNCHANGED outside
    /\ UNCHANGED <<fallback, client, nonstream, config, upstream, buffer,
                   aggregated, consumed, nw, queries, answer>>

\* mutant: cancellation is caught like any other exception
CancelIsException(exc) == TRUE

\* `except Exception`: CancelledError and GeneratorExit derive from
\* BaseException and are not caught
IsException(exc) == exc \notin {"CancelledError", "GeneratorExit"}

\* leaving `async with client.stream(...)` releases an open connection
Released(conn) == IF conn = "open" THEN "released" ELSE conn

\* the client goes away: the server cancels the response task, which raises
\* CancelledError at the generator's await or GeneratorExit at its yield
ClientDisconnect ==
    /\ client = "connected"
    /\ pc \in {"ATTEMPT_PROXY", "PROXY_STREAMING", "PROXY_SYNTH",
               "FALLBACK_QUERY", "FALLBACK_CHUNKING", "FALLBACK_SYNTH"}
    /\ client' = "gone"
    /\ upstream' = Released(upstream)
    /\ \E exc \in {"CancelledError", "GeneratorExit"} :
          pc' = IF /\ pc \in {"ATTEMPT_PROXY", "PROXY_STREAMING",
                              "PROXY_SYNTH"}
                   /\ IsException(exc)
                THEN "FALLBACK_QUERY" ELSE "CANCELLED"
    /\ UNCHANGED outside
    /\ UNCHANGED <<fallback, tts_result, nonstream, config, buffer,
                   aggregated, consumed, out, nw, queries, synths, spoken,
                   answer>>

Next ==
    \/ ConnectOK
    \/ ConnectFail
    \/ ProxyLine
    \/ ProxyTransportFail
    \/ ProxyEnd
    \/ ProxySynth
    \/ FallbackQuery
    \/ FallbackChunking
    \/ FallbackSynth
    \/ ClientDisconnect

Spec == Init /\ [][Next]_vars

----------------------------------------------------------------------------
\* The re-segmenter alone: a multimodal session fed string deltas without
\* terminal punctuation, up to MaxSegWords words in all.

InitReseg == Init /\ wrapper = "multimodal"

AppendStep ==
    /\ pc = "PROXY_STREAMING"
    /\ \E k \in 1..MaxFragWords :
          /\ nw + k <= MaxSegWords
          /\ ProxyStep(Line("str", Fresh(nw, k, FALSE)))

NextReseg ==
    \/ ConnectOK
    \/ AppendStep

SpecReseg == InitReseg /\ [][NextReseg]_vars

----------------------------------------------------------------------------
\* The classifier alone: a session fed one delta chunk whose content is an
\* object.

ClassifyStep ==
    /\ pc = "PROXY_STREAMING"
    /\ consumed = <<>>
    /\ \E dc \in DeltaObjects : ProxyStep(DeltaLine(wrapper, dc, nw))

\* ... and a session fed one parsed object that is no delta chunk
ClassifyObjectStep ==
    /\ pc = "PROXY_STREAMING"
    /\ consumed = <<>>
    /\ \E parsed \in TopObjects : ProxyStep(ObjectLine(wrapper, parsed, nw))

NextClassify ==
    \/ ConnectOK
    \/ ClassifyStep
    \/ ClassifyObjectStep

SpecClassify == Init /\ [][NextClassify]_vars

----------------------------------------------------------------------------
\* The non-streaming branch of chat_completions (stream = false)

StatusOK == 200
BadGateway == 502

\* the bodies a 200 answer of the upstream can carry, as JSON objects
AnswerKeys == {"response", "answer", "result"}
JsonBodies == [AnswerKeys -> KeyValues]

\* mutant: the keys are tried in the order result, answer, response
TextAnswerResultFirst(body) ==
    Or(Get(body, "result", 0),
       Or(Get(body, "answer", 0), Or(Get(body, "response", 0), DumpsParsed(0))))

\* jr.get("response") or jr.get("answer") or jr.get("result")
\*     or json.dumps(jr)
TextAnswer(body) ==
    Or(Get(body, "response", 0),
       Or(Get(body, "answer", 0), Or(Get(body, "result", 0), DumpsParsed(0))))

\* the `out` object handed to JSONResponse
ChatCompletion(text_answer) ==
    [id |-> "custom-lm-wrapper-1",
     object |-> "chat.completion",
     choices |-> << [index |-> 0,
                     message |-> [role |-> "assistant",
                                  content |-> text_answer],
                     finish_reason |-> "stop"] >>]

\* raise HTTPException(status_code=502, detail=...)
HttpError(detail) == [status |-> BadGateway, body |-> [detail |-> detail]]

InitNonStream ==
    /\ wrapper \in {"plain", "multimodal"}
    /\ modalities \in
          IF wrapper = "plain" THEN {{"text"}}
          ELSE {Normalize(r) : r \in SUBSET {"text", "audio"}}
    /\ stream_id \in StreamIds
    /\ pc = "NON_STREAM"
    /\ upstream = "idle"
    /\ buffer = <<>>
    /\ aggregated = <<>>
    /\ consumed = <<>>
    /\ out = <<>>
    /\ nw = 0
    /\ queries = 0
    /\ synths = 0
    /\ spoken = <<>>
    /\ answer = <<>>
    /\ fallback = "none"
    /\ tts_result = NoTts
    /\ client = "connected"
    /\ jr = NoJson
    /\ reply = NoReply
    /\ NoOutside

\* call_lightrag_query raises, or answers with a status other than 200
NonStreamFail ==
    /\ pc = "NON_STREAM"
    /\ queries' = queries + 1
    /\ \E why \in {"LightRAG request failed", "LightRAG error"} :
          reply' = HttpError(why)
    /\ pc' = "REPLIED"
    /\ UNCHANGED outside
    /\ UNCHANGED <<jr, fallback, tts_result, client, config, upstream, buffer,
                   aggregated, consumed, out, nw, synths, spoken, answer>>

\* the answer is 200 and r.json() raises: the handler ends with no reply
NonStreamUnparsable ==
    /\ pc = "NON_STREAM"
    /\ queries' = queries + 1
    /\ pc' = "CRASHED"
    /\ UNCHANGED outside
    /\ UNCHANGED <<nonstream, fallback, tts_result, client, config, upstream,
                   buffer, aggregated, consumed, out, nw, synths, spoken,
                   answer>>

\* the answer is 200 with a JSON object
NonStreamOK ==
    /\ pc = "NON_STREAM"
    /\ queries' = queries + 1
    /\ \E body \in JsonBodies :
          /\ jr' = << body >>
          /\ reply' = [status |-> StatusOK,
                       body |-> ChatCompletion(TextAnswer(body))]
    /\ pc' = "REPLIED"
    /\ UNCHANGED outside
    /\ UNCHANGED <<fallback, tts_result, client, config, upstream, buffer,
                   aggregated, consumed, out, nw, synths, spoken, answer>>

NextNonStream ==
    \/ NonStreamFail
    \/ NonStreamUnparsable
    \/ NonStreamOK

SpecNonStream == InitNonStream /\ [][NextNonStream]_vars

----------------------------------------------------------------------------
\* Vocabulary of the properties

Last(s) == s[Len(s)]

Range(s) == {s[i] : i \in 1..Len(s)}

Finished == pc \in {"DONE", "CRASHED"}

TextOnly == modalities = {"text"}

\* the words of the frames of s, in emission order
FrameWords(s) == JoinSpace([i \in 1..Len(s) |-> s[i].text])

\* the words of the lines of shape sh read so far, in arrival order
WordsIn(sh) ==
    LET ls == SelectSeq(consumed, LAMBDA l : l.shape = sh)
    IN  JoinSpace([i \in 1..Len(ls) |-> ls[i].text])

\* the emitted words that came from lines of shape sh, in emission order
WordsOut(sh) ==
    LET from == Range(WordsIn(sh))
    IN  SelectSeq(FrameWords(out), LAMBDA w : w \in from)

\* the content frames carrying upstream or answer text
ContentFrames == SelectSeq(out, LAMBDA f : f.kind = "text" /\ f.err = "")

NumDone == Cardinality({i \in 1..Len(out) : out[i].kind = "done"})

----------------------------------------------------------------------------
\* C1: every streaming session, whatever fails, ends its output with
\* exactly one [DONE] frame: when stream_generator has finished, the last
\* frame is the [DONE] frame and there is no other.
C1_EndsWithOneDone ==
    Finished => (out # <<>> /\ Last(out) = DoneFrame /\ NumDone = 1)

\* C2: once a frame has been emitted in PROXY_STREAMING, a failure of the
\* upstream stream does not lead to the fallback query.
C2_NoFallbackAfterOutput ==
    [][(pc = "PROXY_STREAMING" /\ out # <<>> /\ upstream' = "broken")
          => pc' # "FALLBACK_QUERY"]_vars

\* C3: when the streaming endpoint is unreachable or answers a non-success
\* status, nothing is emitted before the fallback, one non-streaming query
\* is issued, and with text requested and the query answered the output is
\* the answer in 6-word groups, then Terminal.
C3_CleanFallback ==
    upstream \in {"refused", "status"} =>
        /\ pc = "FALLBACK_QUERY" => (out = <<>> /\ queries = 0)
        /\ queries <= 1
        /\ (Finished /\ WantText(modalities) /\ answer # <<>>) =>
              /\ queries = 1
              /\ ContentFrames = TextChunks(stream_id, answer)
              /\ SubSeq(out, 1, Len(ContentFrames)) = ContentFrames
              /\ Last(out) = DoneFrame

\* C4: a session that requests only audio never emits a frame whose delta
\* carries content.
C4_AudioOnlyNoText ==
    modalities = {"audio"} =>
        \A i \in 1..Len(out) : out[i].kind # "text"

\* C5: upstream or answer text is emitted as a TextChunk only in a session
\* that requests text and does not request audio.
C5_TextOnlyWhenNoAudio ==
    ContentFrames # <<>> => (WantText(modalities) /\ ~WantAudio(modalities))

\* C6: in a text-only session whose upstream stream ended gracefully, the
\* fragments the buffer still held are emitted as one final TextChunk just
\* before Terminal.
C6_RemainderFlushed ==
    (wrapper = "multimodal" /\ TextOnly /\ upstream = "closed" /\ pc = "DONE"
        /\ JoinSpace(buffer) # <<>>) =>
        /\ Len(out) >= 2
        /\ out[Len(out) - 1] = TextFrame(stream_id, JoinSpace(buffer))
        /\ Last(out) = DoneFrame

\* C7: in a text-only session, once the stream has ended, the emitted
\* segments concatenated are the appended fragments concatenated (as words).
C7_NoFragmentLost ==
    (wrapper = "multimodal" /\ TextOnly /\ upstream = "closed" /\ pc = "DONE")
        => WordsOut("str") = WordsIn("str")

\* C8: without terminal punctuation a flush fires exactly when the buffered
\* word count reaches 12: the buffer always holds fewer than 12 words, every
\* flushed segment holds at least 12, and 13 one-word fragments give one
\* segment of 12 words and leave 1 word buffered.
C8_FlushAtTwelveWords ==
    /\ WordCount(JoinSpace(buffer)) < FlushWords
    /\ TextOnly =>
          /\ \A i \in 1..Len(out) : WordCount(out[i].text) >= FlushWords
          /\ FrameWords(out) \o JoinSpace(buffer) = WordsIn("str")
    /\ (/\ TextOnly
        /\ Len(consumed) = FlushWords + 1
        /\ \A i \in 1..Len(consumed) : WordCount(consumed[i].text) = 1) =>
          /\ Len(out) = 1
          /\ WordCount(out[1].text) = FlushWords
          /\ WordCount(JoinSpace(buffer)) = 1

C8_Witness ==
    /\ TextOnly
    /\ Len(consumed) = FlushWords + 1
    /\ \A i \in 1..Len(consumed) : WordCount(consumed[i].text) = 1
    /\ Len(out) = 1
    /\ Len(buffer) = 1

\* C9: appending a fragment that carries . ! or ? flushes at once: the buffer
\* is empty afterwards and, in a text-only session, the segment emitted is
\* the buffered fragments and the new one joined in arrival order.
C9_TerminalFlushes ==
    [][(/\ pc = "PROXY_STREAMING"
        /\ wrapper = "multimodal"
        /\ Len(consumed') = Len(consumed) + 1
        /\ Last(consumed').shape = "str"
        /\ HasTerminal(Last(consumed').text))
          => /\ buffer' = <<>>
             /\ TextOnly =>
                   out' = Append(out, TextFrame(stream_id,
                             JoinSpace(buffer) \o Last(consumed').text))]_vars

C9_Witness ==
    /\ wrapper = "multimodal"
    /\ TextOnly
    /\ Len(consumed) = 2
    /\ consumed[1].shape = "str" /\ consumed[1].text # <<>>
    /\ consumed[2].shape = "str" /\ HasTerminal(consumed[2].text)
    /\ buffer = <<>>
    /\ out = << TextFrame(stream_id, consumed[1].text \o consumed[2].text) >>

\* C10: every line that is no JSON object is text: with text requested its
\* words are emitted, all of them and in arrival order.
C10_RawLinesEmitted ==
    WantText(modalities) => WordsOut("raw") = WordsIn("raw")

C10_Witness ==
    /\ WantText(modalities)
    /\ Len(consumed) = 3
    /\ consumed[1].shape = "str" /\ buffer # <<>>
    /\ consumed[2].shape = "raw" /\ Len(consumed[2].text) = 1
    /\ consumed[3].shape = "raw" /\ Len(consumed[3].text) > WordsPerChunk
    /\ Len(out) = 3
    /\ FrameWords(out) = consumed[2].text \o consumed[3].text

----------------------------------------------------------------------------
\* the audio frames the session synthesized itself
IsSynthAudio(f) ==
    f.kind = "audio" /\ f.audio.id = <<stream_id, "-audio">>

NumErr == Cardinality({i \in 1..Len(out) : out[i].err # ""})

\* C12: in a session's output no TextChunk comes after an AudioChunk, audio
\* deltas forwarded from upstream included.
C12_TextBeforeAudio ==
    \A i, j \in 1..Len(out) :
        (i < j /\ out[i].kind = "audio") => out[j].kind # "text"

\* C13: after a synthesizer error the session is at Terminal: no synthesized
\* audio was emitted, the last frame is [DONE], and after a proxy-path error
\* no fallback query was started.
C13_SynthErrorGoesToTerminal ==
    tts_result.st = "raised" =>
        /\ pc = "DONE"
        /\ out # <<>> /\ Last(out) = DoneFrame
        /\ \A i \in 1..Len(out) : ~IsSynthAudio(out[i])
        /\ upstream = "closed" => (fallback = "none" /\ answer = <<>>)

\* C14: a fallback query that fails at transport level ends the session
\* with one error chunk and then Terminal: these are the last two frames,
\* the only error chunk and the only Terminal, no answer is streamed or
\* synthesized, and after a clean fallback they are the whole output, with
\* one upstream request and no synthesizer call.
C14_TransportErrorEndsSession ==
    fallback = "transport" =>
        /\ pc = "DONE"
        /\ Len(out) >= 2
        /\ SubSeq(out, Len(out) - 1, Len(out))
              = << ErrFrame(stream_id, "transport"), DoneFrame >>
        /\ NumErr = 1 /\ NumDone = 1
        /\ answer = <<>> /\ tts_result.st # "ok"
        /\ upstream \in {"refused", "status"} =>
              /\ Len(out) = 2
              /\ synths = 0
              /\ queries = 1

C14_Witness ==
    /\ fallback = "transport"
    /\ upstream = "refused"
    /\ out = << ErrFrame(stream_id, "transport"), DoneFrame >>

\* C15: once the client is gone the generator is cancelled: the upstream
\* connection is not left open, no line is read, no upstream request is
\* issued, the synthesizer is not called and no frame is emitted.
C15_DisconnectStopsSession ==
    [][client' = "gone" =>
          /\ pc' = "CANCELLED"
          /\ upstream' # "open"
          /\ consumed' = consumed
          /\ queries' = queries
          /\ synths' = synths
          /\ out' = out]_vars

C15_Witness ==
    /\ client = "gone"
    /\ pc = "CANCELLED"
    /\ upstream = "released"
    /\ consumed # <<>>
    /\ out # <<>>

\* C16: at most one Terminal frame is ever emitted, and when it has been
\* emitted it is the last frame and the generator has returned.
C16_OneTerminalLast ==
    /\ NumDone <= 1
    /\ NumDone = 1 => (Last(out) = DoneFrame /\ pc = "DONE")

C16_Witness ==
    /\ pc = "DONE"
    /\ NumDone = 1
    /\ Len(out) >= 4
    /\ \E i \in 1..Len(out) : out[i].kind = "text"
    /\ \E i \in 1..Len(out) : IsSynthAudio(out[i])

\* C17 as stated: an audio-only session whose synthesis succeeded has an
\* AudioChunk of its own before Terminal.
C17_AudioOnlyEmitsAudio ==
    (modalities = {"audio"} /\ tts_result.st = "ok") =>
        /\ \E i \in 1..Len(out) : IsSynthAudio(out[i])
        /\ Last(out) = DoneFrame

\* C17, amended: an audio-only session whose synthesis succeeded with at
\* least one byte has an AudioChunk of its own before Terminal, on the proxy
\* path and on the fallback path.
C17_AudioOnlyEmitsAudioIfBytes ==
    (modalities = {"audio"} /\ tts_result.st = "ok" /\ tts_result.len > 0) =>
        /\ \E i \in 1..(Len(out) - 1) : IsSynthAudio(out[i])
        /\ Last(out) = DoneFrame
        /\ pc = "DONE"

C17_Witness ==
    /\ modalities = {"audio"}
    /\ tts_result.st = "ok" /\ tts_result.len = 1
    /\ upstream = "closed"
    /\ fallback = "none"
    /\ Len(out) = 2
    /\ IsSynthAudio(out[1])

\* C18: in a text-only session the emitted text is in the order of the
\* upstream lines it came from (words are numbered in arrival order).
C18_TextInArrivalOrder ==
    (wrapper = "multimodal" /\ TextOnly) =>
        LET ws == FrameWords(out)
        IN  \A i, j \in 1..Len(ws) : i < j => ws[i].id < ws[j].id

\* C19: a line that parses as a JSON object never ends the proxy loop: after
\* it is handled the session is still in PROXY_STREAMING with the upstream
\* connection open.
C19_ClassificationNeverFails ==
    [][(/\ pc = "PROXY_STREAMING"
        /\ Len(consumed') = Len(consumed) + 1
        /\ Last(consumed').shape # "raw")
          => (pc' = "PROXY_STREAMING" /\ upstream' = "open")]_vars

----------------------------------------------------------------------------
\* make_audio_base64_chunks on its own.  A byte is a number in 0..255, a
\* base64 string the sequence of its characters: 0..63 for the alphabet,
\* 64 for the padding character "=".

\* ceil(a / b)
CeilDiv(a, b) == (a + b - 1) \div b

\* the byte at index i (from 1) or 0 past the end
ByteOrZero(bytes, i) == IF i <= Len(bytes) THEN bytes[i] ELSE 0

\* the 24-bit number of the g-th group of three bytes
Group24(bytes, g) ==
    ByteOrZero(bytes, 3 * g - 2) * 65536
        + ByteOrZero(bytes, 3 * g - 1) * 256
        + ByteOrZero(bytes, 3 * g)

\* the c-th (1..4) character of a group: six bits of the 24-bit number,
\* or padding where the group has no byte for them
GroupChar(bytes, g, c) ==
    LET v == Group24(bytes, g)
        have == Min(3, Len(bytes) - 3 * (g - 1))
    IN  CASE c = 1 -> v \div 262144
          [] c = 2 -> (v \div 4096) % 64
          [] c = 3 -> IF have >= 2 THEN (v \div 64) % 64 ELSE 64
          [] c = 4 -> IF have >= 3 THEN v % 64 ELSE 64

\* mutant: a last group of fewer than three bytes is not encoded
B64EncodeWholeGroups(bytes) ==
    [j \in 1..(4 * (Len(bytes) \div 3)) |->
        GroupChar(bytes, (j + 3) \div 4, ((j - 1) % 4) + 1)]

\* base64.b64encode(bytes).decode("ascii")
B64Encode(bytes) ==
    [j \in 1..(4 * CeilDiv(Len(bytes), 3)) |->
        GroupChar(bytes, (j + 3) \div 4, ((j - 1) % 4) + 1)]

\* make_audio_base64_chunks(audio_bytes, chunk_size)
MakeAudioBase64Chunks(bytes, size) ==
    LET slices == MakeAudioChunks(Len(bytes), size)
    IN  [u \in 1..Len(slices) |->
            B64Encode(SubSeq(bytes, slices[u].lo + 1, slices[u].hi))]

\* the byte sequences tried: lengths around zero, one and two transfer
\* units, contents set by a seed
SliceLens == {0, 1, 2, 3, ChunkSize - 1, ChunkSize, ChunkSize + 1,
              2 * ChunkSize, 2 * ChunkSize + 1}
Bytes(len, seed) ==
    [i \in 1..len |-> (i * (2 * seed + 1) + seed + (i \div 256)) % 256]

InitSlice ==
    /\ NoSession("SLICE")
    /\ \E len \in SliceLens, seed \in 0..MaxSeed :
          audio_bytes = Bytes(len, seed)
    /\ b64_units = <<>>
    /\ raw_text = <<>>
    /\ word_groups = <<>>
    /\ streams = <<>>
    /\ cells = <<>>
    /\ sessions = <<>>
    /\ requests = <<>>

\* for b64_chunk in make_audio_base64_chunks(audio_bytes, chunk_size=1024)
SliceStep ==
    /\ pc = "SLICE"
    /\ b64_units' = MakeAudioBase64Chunks(audio_bytes, ChunkSize)
    /\ pc' = "SLICED"
    /\ UNCHANGED session_data
    /\ UNCHANGED <<audio_bytes, raw_text, word_groups, streams, cells,
                   sessions, requests>>

NextSlice == SliceStep

SpecSlice == InitSlice /\ [][NextSlice]_vars

----------------------------------------------------------------------------
\* chunk_text_by_words on its own.  The text is given item by item: an item
\* is a word or one whitespace character.

Space == [id |-> -1, term |-> FALSE]

IsSpace(c) == c.id < 0

\* k copies of a whitespace character
Spaces(k) == [i \in 1..k |-> Space]

RECURSIVE Spaced(_, _)
\* the words, each followed by gap whitespace characters
Spaced(words, gap) ==
    IF words = <<>> THEN <<>>
    ELSE (<< Head(words) >> \o Spaces(gap)) \o Spaced(Tail(words), gap)

\* the answer texts tried: up to MaxAnswerWords words, one or two
\* whitespace characters between them, with or without whitespace at the
\* ends
AnswerTexts ==
    {LET body == Spaced(Fresh(0, k, FALSE), gap)
     IN  Spaces(lead) \o SubSeq(body, 1, Len(body) - trim) :
        k \in 0..MaxAnswerWords, gap \in {1, 2}, lead \in {0, 1},
        trim \in {0, 1}}

\* text.split()
Split(text) == SelectSeq(text, LAMBDA c : ~IsSpace(c))

InitChunk ==
    /\ NoSession("CHUNK")
    /\ raw_text \in AnswerTexts
    /\ word_groups = <<>>
    /\ audio_bytes = <<>>
    /\ b64_units = <<>>
    /\ streams = <<>>
    /\ cells = <<>>
    /\ sessions = <<>>
    /\ requests = <<>>

\* for piece in chunk_text_by_words(full_text, words_per_chunk=6)
ChunkStep ==
    /\ pc = "CHUNK"
    /\ word_groups' = IF raw_text = <<>> THEN <<>>
                      ELSE ChunkTextByWords(Split(raw_text), WordsPerChunk)
    /\ pc' = "CHUNKED"
    /\ UNCHANGED session_data
    /\ UNCHANGED <<raw_text, audio_bytes, b64_units, streams, cells,
                   sessions, requests>>

NextChunk == ChunkStep

SpecChunk == InitChunk /\ [][NextChunk]_vars

----------------------------------------------------------------------------
\* Two streaming requests served at the same time by the multimodal
\* wrapper.  Each call of chat_completions has its own stream_id and each
\* call of stream_generator its own buffer and aggregated_text_parts; the
\* event loop interleaves the two generators line by line.

Pair == {1, 2}

\* stream_id = str(uuid.uuid4()), one per request
PairStreamId(k) == IF k = 1 THEN "s1" ELSE "s2"

\* mutant: buffer and aggregated_text_parts are module-level lists
SharedCell(k) == 1

\* the lists session k works on: those its own generator created
CellOf(k) == k

\* the lines the upstream of session k can send next; its words are numbered
\* apart from the other session's
PairLines(k, n0) ==
    LET base == (k - 1) * (MaxPairLines + 1) + n0
    IN  {[Line("audio", <<>>) EXCEPT !.audio = UpstreamAudio]}
        \cup {Line("str", Fresh(base, 1, t)) : t \in BOOLEAN}
        \cup {Line("raw", Fresh(base, 1, FALSE))}

InitPair ==
    /\ NoSession("PAIR")
    /\ streams \in
          [Pair -> {[sid |-> PairStreamId(k), m |-> Normalize(r),
                     pc |-> "PROXY_STREAMING", consumed |-> <<>>,
                     out |-> <<>>] :
                        k \in Pair, r \in SUBSET {"text", "audio"}}]
    /\ \A k \in Pair : streams[k].sid = PairStreamId(k)
    /\ cells = [c \in Pair |-> [buf |-> <<>>, agg |-> <<>>]]
    /\ audio_bytes = <<>>
    /\ b64_units = <<>>
    /\ raw_text = <<>>
    /\ word_groups = <<>>
    /\ sessions = <<>>
    /\ requests = <<>>

\* session k reads one line of its upstream stream and handles it
PairLine(k) ==
    /\ streams[k].pc = "PROXY_STREAMING"
    /\ Len(streams[k].consumed) < MaxPairLines
    /\ \E line \in PairLines(k, Len(streams[k].consumed)) :
          LET c == CellOf(k)
              h == HandleLineMM(line, cells[c].buf, cells[c].agg,
                                streams[k].m, streams[k].sid)
          IN  /\ streams' = [streams EXCEPT
                                ![k].consumed = Append(@, line),
                                ![k].out = @ \o h.emit]
              /\ cells' = [cells EXCEPT ![c] = [buf |-> h.buf,
                                                agg |-> h.agg]]
    /\ UNCHANGED session
    /\ UNCHANGED <<audio_bytes, b64_units, raw_text, word_groups, sessions,
                   requests>>

\* the upstream of session k closes its stream
PairEnd(k) ==
    /\ streams[k].pc = "PROXY_STREAMING"
    /\ streams' = [streams EXCEPT
                      ![k].pc = IF WantAudio(streams[k].m) THEN "PROXY_SYNTH"
                                ELSE ProxyDonePc,
                      ![k].out = IF WantAudio(streams[k].m) THEN @
                                 ELSE Append(@, DoneFrame)]
    /\ UNCHANGED session
    /\ UNCHANGED <<cells, audio_bytes, b64_units, raw_text, word_groups,
                   sessions, requests>>

NextPair ==
    \E k \in Pair :
        \/ PairLine(k)
        \/ PairEnd(k)

SpecPair == InitPair /\ [][NextPair]_vars

----------------------------------------------------------------------------
\* conversational_ai: the /chat and /reset handlers and ConversationManager,
\* for one session id.  The handlers are plain `def` functions, which the
\* server runs on worker threads: two calls can be in progress at once and
\* interleave between their statements.
\*
\* sessions is <<>> when manager.sessions has no entry for the id and
\* << entry >> otherwise; obj tells one entry dict from another, history is
\* the list of roles.  requests.th[t] is the call running on thread t.

Threads == {1, 2}

IdleThread(result) ==
    [pc |-> "idle", kind |-> "", ref |-> 0, cnt |-> 0, result |-> result]

\* thread t moves to position p
Goto(t, p) == [requests EXCEPT !.th[t].pc = p]

\* the call on thread t ends with result
Return(t, result) == [requests EXCEPT !.th[t] = IdleThread(result)]

\* the part of the state the service leaves alone
not_chat == <<audio_bytes, b64_units, raw_text, word_groups, streams, cells>>

InitChat ==
    /\ NoSession("CHAT")
    /\ sessions = <<>>
    /\ requests = [started |-> 0, objs |-> 0,
                   th |-> [t \in Threads |-> IdleThread("")]]
    /\ audio_bytes = <<>>
    /\ b64_units = <<>>
    /\ raw_text = <<>>
    /\ word_groups = <<>>
    /\ streams = <<>>
    /\ cells = <<>>

\* POST /chat arrives; an empty message is answered at once
ChatBegin(t) ==
    /\ requests.th[t].pc = "idle"
    /\ requests.started < MaxChats
    /\ \E kind \in {"empty", "direct", "other"} :
          requests' =
              [requests EXCEPT
                  !.started = @ + 1,
                  !.th[t] = IF kind = "empty" THEN IdleThread("error")
                            ELSE [IdleThread("") EXCEPT !.pc = "check",
                                                        !.kind = kind]]
    /\ UNCHANGED <<sessions, session, not_chat>>

\* if sid not in manager.sessions
ChatCheck(t) ==
    /\ requests.th[t].pc = "check"
    /\ requests' = Goto(t, IF sessions = <<>> THEN "start" ELSE "add_user")
    /\ UNCHANGED <<sessions, session, not_chat>>

\* start_session: a new entry dict
StartSession(obj) == [obj |-> obj, history |-> <<>>, followup_count |-> 0]

\* manager.start_session(sid)
ChatStart(t) ==
    /\ requests.th[t].pc = "start"
    /\ sessions' = << StartSession(requests.objs + 1) >>
    /\ requests' = [Goto(t, "add_user") EXCEPT !.objs = @ + 1]
    /\ UNCHANGED <<session, not_chat>>

\* manager.add_user(sid, msg), then the rule-based test of the message
ChatAddUser(t) ==
    /\ requests.th[t].pc = "add_user"
    /\ IF sessions = <<>>
       THEN requests' = Return(t, "crash") /\ sessions' = sessions
       ELSE /\ sessions' = [sessions EXCEPT ![1].history = Append(@, "user")]
            /\ requests' = Goto(t, IF requests.th[t].kind = "direct"
                                   THEN "final" ELSE "needs")
    /\ UNCHANGED <<session, not_chat>>

\* manager.needs_follow_up(sid): the upstream decides; an error counts as no
ChatNeedsFollowUp(t) ==
    /\ requests.th[t].pc = "needs"
    /\ IF sessions = <<>>
       THEN requests' = Return(t, "crash")
       ELSE \E ask \in BOOLEAN :
               requests' = Goto(t, IF ask THEN "finalize" ELSE "final")
    /\ UNCHANGED <<sessions, session, not_chat>>

\* followup_count >= 2
ShouldFinalize(count) == count >= FollowupLimit

\* manager.should_finalize(sid)
ChatShouldFinalize(t) ==
    /\ requests.th[t].pc = "finalize"
    /\ IF sessions = <<>>
       THEN requests' = Return(t, "crash")
       ELSE requests' = Goto(t, IF ShouldFinalize(sessions[1].followup_count)
                                THEN "final" ELSE "followup")
    /\ UNCHANGED <<sessions, session, not_chat>>

\* manager.final_answer(sid): history[-1] and the upstream call can raise
ChatFinalAnswer(t) ==
    /\ requests.th[t].pc = "final"
    /\ IF sessions = <<>> \/ sessions[1].history = <<>>
       THEN requests' = Return(t, "crash")
       ELSE \E ok \in BOOLEAN :
               requests' = IF ok THEN Goto(t, "add_final")
                           ELSE Return(t, "crash")
    /\ UNCHANGED <<sessions, session, not_chat>>

\* manager.generate_followup(sid) up to the upstream's answer
ChatGenerateFollowup(t) ==
    /\ requests.th[t].pc = "followup"
    /\ IF sessions = <<>>
       THEN requests' = Return(t, "crash")
       ELSE \E ok \in BOOLEAN :
               requests' = IF ok THEN Goto(t, "incr_read")
                           ELSE Return(t, "crash")
    /\ UNCHANGED <<sessions, session, not_chat>>

\* followup_count += 1, first half: the entry and its count are read
ChatIncrRead(t) ==
    /\ requests.th[t].pc = "incr_read"
    /\ IF sessions = <<>>
       THEN requests' = Return(t, "crash")
       ELSE requests' = [requests EXCEPT
                            !.th[t].pc = "incr_write",
                            !.th[t].ref = sessions[1].obj,
                            !.th[t].cnt = sessions[1].followup_count]
    /\ UNCHANGED <<sessions, session, not_chat>>

\* followup_count += 1, second half: the sum is stored in the entry read,
\* which may no longer be the one in manager.sessions
ChatIncrWrite(t) ==
    /\ requests.th[t].pc = "incr_write"
    /\ sessions' = IF sessions # <<>> /\ sessions[1].obj = requests.th[t].ref
                   THEN [sessions EXCEPT
                            ![1].followup_count = requests.th[t].cnt + 1]
                   ELSE sessions
    /\ requests' = Goto(t, "add_followup")
    /\ UNCHANGED <<session, not_chat>>

\* manager.add_assistant(sid, ...) and the handler's return
ChatAddAssistant(t) ==
    /\ requests.th[t].pc \in {"add_final", "add_followup"}
    /\ IF sessions = <<>>
       THEN requests' = Return(t, "crash") /\ sessions' = sessions
       ELSE /\ sessions' = [sessions EXCEPT
                               ![1].history = Append(@, "assistant")]
            /\ requests' = Return(t, IF requests.th[t].pc = "add_final"
                                     THEN "final_answer"
                                     ELSE "follow_up_question")
    /\ UNCHANGED <<session, not_chat>>

\* POST /reset: manager.reset_session(sid)
Reset(t) ==
    /\ requests.th[t].pc = "idle"
    /\ requests.started < MaxChats
    /\ sessions' = <<>>
    /\ requests' = [requests EXCEPT !.started = @ + 1,
                                    !.th[t] = IdleThread("cleared")]
    /\ UNCHANGED <<session, not_chat>>

NextChat ==
    \E t \in Threads :
        \/ ChatBegin(t)
        \/ ChatCheck(t)
        \/ ChatStart(t)
        \/ ChatAddUser(t)
        \/ ChatNeedsFollowUp(t)
        \/ ChatShouldFinalize(t)
        \/ ChatFinalAnswer(t)
        \/ ChatGenerateFollowup(t)
        \/ ChatIncrRead(t)
        \/ ChatIncrWrite(t)
        \/ ChatAddAssistant(t)
        \/ Reset(t)

SpecChat == InitChat /\ [][NextChat]_vars

----------------------------------------------------------------------------
\* the first of the keys in order whose value in obj is a text ("" if none)
FirstText(obj, order) ==
    LET S == {i \in 1..Len(order) : obj[order[i]] = "text"}
    IN  IF S = {} THEN ""
        ELSE order[CHOOSE i \in S : \A j \in S : i <= j]

\* the first of the keys in order that obj holds ("" if none)
FirstPresent(obj, order) ==
    LET S == {i \in 1..Len(order) : obj[order[i]] # "absent"}
    IN  IF S = {} THEN ""
        ELSE order[CHOOSE i \in S : \A j \in S : i <= j]

\* the choice of a non-streaming reply, its content left aside
IsStopChoice(c) ==
    /\ DOMAIN c = {"index", "message", "finish_reason"}
    /\ c.index = 0
    /\ DOMAIN c.message = {"role", "content"}
    /\ c.message.role = "assistant"
    /\ c.finish_reason = "stop"

\* C11 as stated: a successful non-streaming reply has the fields object and
\* choices and no other, with one choice holding the upstream answer.
C11_OnlyScenarioFields ==
    reply.status = StatusOK =>
        /\ DOMAIN reply.body = {"object", "choices"}
        /\ reply.body.object = "chat.completion"
        /\ Len(reply.body.choices) = 1
        /\ IsStopChoice(reply.body.choices[1])

\* C11, amended: a successful non-streaming reply has the fields id, object
\* and choices and no other; id is "custom-lm-wrapper-1", object is
\* "chat.completion", and the one choice (index 0, role assistant,
\* finish_reason "stop") holds the first non-empty of the body's response,
\* answer, result, or else the serialized body.
C11_ChatCompletionWithId ==
    reply.status = StatusOK =>
        /\ DOMAIN reply.body = {"id", "object", "choices"}
        /\ reply.body.id = "custom-lm-wrapper-1"
        /\ reply.body.object = "chat.completion"
        /\ Len(reply.body.choices) = 1
        /\ IsStopChoice(reply.body.choices[1])
        /\ LET k == FirstText(jr[1], <<"response", "answer", "result">>)
           IN  reply.body.choices[1].message.content =
                  IF k = "" THEN DumpsParsed(0) ELSE Get(jr[1], k, 0)

C11_Witness ==
    /\ reply.status = StatusOK
    /\ jr[1]["response"] = "empty"
    /\ jr[1]["answer"] = "text"
    /\ jr[1]["result"] = "text"
    /\ reply.body.choices[1].message.content = Get(jr[1], "answer", 0)

\* the text a session put out for its one delta chunk: what it emitted if
\* text is emitted, what it kept for synthesis otherwise
DeltaTextOut ==
    IF wrapper = "plain" \/ WantText(modalities) THEN FrameWords(out)
    ELSE JoinSpace(aggregated)

\* C20 as stated: the text of a delta chunk whose content is an object is
\* the value of the first key present among result, answer, response,
\* content.
C20_ResultFirst ==
    (consumed # <<>> /\ consumed[1].dc # <<>>) =>
        LET dc == consumed[1].dc[1]
            k  == FirstPresent(dc, <<"result", "answer", "response",
                                     "content">>)
        IN  k # "" => DeltaTextOut = Get(dc, k, 0)

\* C20, amended: the text of a delta chunk whose content is an object is the
\* value of the first key with a non-empty value among response, answer,
\* result, content, in that order, in both wrappers.
C20_ResponseFirst ==
    (consumed # <<>> /\ consumed[1].dc # <<>>) =>
        LET dc == consumed[1].dc[1]
            k  == FirstText(dc, <<"response", "answer", "result",
                                  "content">>)
        IN  k # "" =>
              /\ consumed[1].shape = "obj"
              /\ DeltaTextOut = Get(dc, k, 0)
              /\ wrapper = "multimodal" => aggregated = << Get(dc, k, 0) >>

C20_Witness ==
    /\ consumed # <<>> /\ consumed[1].dc # <<>>
    /\ consumed[1].dc[1]["response"] = "text"
    /\ consumed[1].dc[1]["result"] = "text"
    /\ consumed[1].dc[1]["answer"] = "empty"
    /\ WantText(modalities)
    /\ FrameWords(out) = Get(consumed[1].dc[1], "response", 0)

----------------------------------------------------------------------------
\* C21: the text of a delta chunk whose content is an object holding none of
\* the known textual keys is the serialization of that content sub-object.
C21_SerializesContentObject ==
    (/\ consumed # <<>> /\ consumed[1].dc # <<>>
     /\ \A k \in TextKeys : consumed[1].dc[1][k] = "absent")
        => DeltaTextOut = DumpsContent(0)

\* C22: the text of a parsed object that is no delta chunk is the first
\* string value among response, answer, result; otherwise the first string
\* value among text, content, message, data; otherwise the serialization of
\* the whole object; in both wrappers.
C22_TopLevelThenSecondary ==
    (consumed # <<>> /\ consumed[1].top # <<>>) =>
        LET parsed == consumed[1].top[1]
            k1 == FirstText(parsed, <<"response", "answer", "result">>)
            k2 == FirstText(parsed, <<"text", "content", "message", "data">>)
        IN  DeltaTextOut = IF k1 # "" THEN Get(parsed, k1, 0)
                           ELSE IF k2 # "" THEN Get(parsed, k2, 0)
                           ELSE DumpsParsed(0)

----------------------------------------------------------------------------
\* C23: in the multimodal wrapper a step that reads a delta chunk carrying
\* an audio sub-object emits exactly one frame, an audio frame with that
\* sub-object and the session's stream id, and leaves the buffer and the
\* aggregated text as they were.
C23_AudioForwarded ==
    [][(/\ wrapper = "multimodal"
        /\ pc = "PROXY_STREAMING"
        /\ Len(consumed') = Len(consumed) + 1
        /\ Last(consumed').shape = "audio")
          => (/\ Len(out') = Len(out) + 1
              /\ SubSeq(out', 1, Len(out)) = out
              /\ Last(out').kind = "audio"
              /\ Last(out').audio = Last(consumed').audio
              /\ Last(out').id = stream_id
              /\ Last(out').text = <<>>
              /\ buffer' = buffer
              /\ aggregated' = aggregated
              /\ pc' = "PROXY_STREAMING")]_vars

C23_Witness ==
    /\ wrapper = "multimodal"
    /\ Len(consumed) = 2
    /\ consumed[1].shape = "str"
    /\ consumed[2].shape = "audio"
    /\ consumed[2].uid # stream_id
    /\ buffer # <<>>
    /\ out = << AudioFrame(stream_id, UpstreamAudio) >>

\* C24: every text and audio frame carries the session's stream id, also
\* the frames forwarded from upstream chunks that came with another id, and
\* every audio frame that is not a forwarded one carries the audio id
\* <stream id>-audio.
C24_OneStreamId ==
    /\ \A i \in 1..Len(out) :
          out[i].kind \in {"text", "audio"} => out[i].id = stream_id
    /\ \A i \in 1..Len(out) :
          (/\ out[i].kind = "audio"
           /\ \A j \in 1..Len(consumed) : consumed[j].audio # out[i].audio)
             => out[i].audio.id = <<stream_id, "-audio">>

C24_Witness ==
    /\ pc = "DONE"
    /\ \E i \in 1..Len(consumed) : consumed[i].shape = "str"
    /\ \E i \in 1..Len(consumed) : consumed[i].uid # stream_id
    /\ \E i \in 1..Len(out) : out[i].kind = "text" /\ out[i].id = stream_id
    /\ \E i \in 1..Len(out) : out[i].audio = UpstreamAudio
    /\ \E i \in 1..Len(out) :
          out[i].kind = "audio" /\ out[i].audio # UpstreamAudio

----------------------------------------------------------------------------
\* base64 decoding, written for the client's side: four characters give
\* three bytes, less one for each padding character
DecodedLen(chars) ==
    3 * (Len(chars) \div 4)
        - Cardinality({j \in 1..Len(chars) : chars[j] = 64})

Sextet(chars, j) == IF chars[j] = 64 THEN 0 ELSE chars[j]

B64Decode(chars) ==
    [i \in 1..DecodedLen(chars) |->
        LET g == (i + 2) \div 3
            v == Sextet(chars, 4 * g - 3) * 262144
                    + Sextet(chars, 4 * g - 2) * 4096
                    + Sextet(chars, 4 * g - 1) * 64
                    + Sextet(chars, 4 * g)
        IN  CASE i % 3 = 1 -> v \div 65536
              [] i % 3 = 2 -> (v \div 256) % 256
              [] OTHER -> v % 256]

RECURSIVE Concat(_)
Concat(seqs) == IF seqs = <<>> THEN <<>> ELSE Head(seqs) \o Concat(Tail(seqs))

\* C25: every transfer unit decodes to at most 1024 bytes, every unit but
\* the last to exactly 1024, the decoded units concatenated in emission
\* order are the byte sequence, and an empty sequence gives no unit.
C25_SlicingLossless ==
    pc = "SLICED" =>
        LET decoded == [u \in 1..Len(b64_units) |-> B64Decode(b64_units[u])]
        IN  /\ \A u \in 1..Len(decoded) :
                  /\ Len(decoded[u]) >= 1
                  /\ Len(decoded[u]) <= ChunkSize
                  /\ u < Len(decoded) => Len(decoded[u]) = ChunkSize
            /\ Concat(decoded) = audio_bytes
            /\ audio_bytes = <<>> => b64_units = <<>>

C25_Witness ==
    /\ pc = "SLICED"
    /\ Len(audio_bytes) = 2 * ChunkSize + 1
    /\ Len(b64_units) = 3
    /\ \E i \in 1..Len(audio_bytes) : audio_bytes[i] > 200

----------------------------------------------------------------------------
\* C26: every group holds between 1 and 6 words and no whitespace, every
\* group but the last holds exactly 6, the groups joined in order are the
\* words of the answer in order, and a text without words gives no group.
C26_ChunkingLossless ==
    pc = "CHUNKED" =>
        LET words == SelectSeq(raw_text, LAMBDA c : c.id > 0)
        IN  /\ \A g \in 1..Len(word_groups) :
                  /\ Len(word_groups[g]) >= 1
                  /\ Len(word_groups[g]) <= WordsPerChunk
                  /\ g < Len(word_groups) =>
                        Len(word_groups[g]) = WordsPerChunk
                  /\ \A i \in 1..Len(word_groups[g]) :
                        word_groups[g][i].id > 0
            /\ JoinSpace(word_groups) = words
            /\ words = <<>> => word_groups = <<>>

C26_Witness ==
    /\ pc = "CHUNKED"
    /\ Len(word_groups) = 3
    /\ Len(word_groups[3]) = 1
    /\ Len(raw_text) > 2 * MaxAnswerWords
    /\ IsSpace(raw_text[1])

----------------------------------------------------------------------------
\* C27: the synthesizer is called at most once in a session, only in a
\* session that requested audio, and only after the upstream stream has
\* ended or the fallback answer has been obtained.
C27_SynthAtMostOnce ==
    /\ synths <= 1
    /\ synths > 0 =>
          /\ WantAudio(modalities)
          /\ upstream = "closed" \/ fallback = "ok"

\* the number of words the upstream streamed
WordsStreamed ==
    Len(JoinSpace([i \in 1..Len(consumed) |-> consumed[i].text]))

----------------------------------------------------------------------------
RECURSIVE Alone(_, _, _)
\* a session with modalities m and stream id sid that reads lines, running
\* alone: its buffer, aggregated text and frames
Alone(lines, m, sid) ==
    IF lines = <<>> THEN [buf |-> <<>>, agg |-> <<>>, out |-> <<>>]
    ELSE LET before == Alone(SubSeq(lines, 1, Len(lines) - 1), m, sid)
             h == HandleLineMM(Last(lines), before.buf, before.agg, m, sid)
         IN  [buf |-> h.buf, agg |-> h.agg, out |-> before.out \o h.emit]

\* C29: whatever the interleaving of two sessions, each session's buffer,
\* aggregated text, stream id and frames are those of the session running
\* alone on the lines it read.
C29_SessionsIndependent ==
    \A k \in Pair :
        LET alone == Alone(streams[k].consumed, streams[k].m,
                           PairStreamId(k))
            content == SelectSeq(streams[k].out, LAMBDA f : f.kind # "done")
        IN  /\ cells[CellOf(k)].buf = alone.buf
            /\ cells[CellOf(k)].agg = alone.agg
            /\ content = alone.out
            /\ streams[k].sid = PairStreamId(k)
            /\ \A i \in 1..Len(content) : content[i].id = streams[k].sid
            /\ \A j \in Pair : j # k => streams[j].sid # streams[k].sid

C29_Witness ==
    /\ \A k \in Pair :
          /\ streams[k].m = {"text"}
          /\ Len(streams[k].consumed) = MaxPairLines
          /\ streams[k].consumed[1].shape = "str"
          /\ streams[k].out # <<>>
    /\ cells[1].buf # <<>>
    /\ cells[2].buf = <<>>

----------------------------------------------------------------------------
\* C30: the session's followup_count never exceeds 2.
C30_FollowupCountBounded ==
    sessions # <<>> => sessions[1].followup_count <= FollowupLimit

============================================================================
